---- MODULE Spec2Model ----
(***************************************************************************)
(* A model of the sampling-and-caching core of general-gcl:                *)
(*   - the run preamble of transfer.py / interactive_validation.py, which  *)
(*     decides whether the ambient generators are seeded;                  *)
(*   - ESWR (src/utils.py, src/datasets/cora_dataset.py): drawing bounded  *)
(*     subgraph samples from a source graph with the ambient generators;   *)
(*   - download_cora: fetching the raw graph, extracting its largest       *)
(*     connected component;                                                *)
(*   - CoraDataset: building a split and caching it under root/processed;  *)
(*   - get_big_dataset: merging dataset handles with +=;                   *)
(*   - better_to_nx / vis_from_pyg: rebuilding a graph from a sample.      *)
(* Third-party calls are modelled by their library behaviour:              *)
(*   numpy / random : ambient generators, deterministic given their seed,  *)
(*                    seeded from OS entropy in a fresh process;           *)
(*   littleballoffur: a sampler constructor called without a seed argument *)
(*                    seeds both ambient generators with its default seed; *)
(*                    sample() raises ValueError when the budget exceeds   *)
(*                    the graph's node count and otherwise returns the     *)
(*                    subgraph induced on exactly number_of_nodes nodes;   *)
(*   networkx       : convert_node_labels_to_integers renumbers the nodes  *)
(*                    0..k-1 in node order and carries the edges over;     *)
(*   torch_geometric: Dataset.__init__ calls process() unless every file   *)
(*                    of processed_file_names exists;                      *)
(*   torch          : Dataset + Dataset is a ConcatDataset.                *)
(***************************************************************************)
EXTENDS Integers, Sequences, FiniteSets, TLC

VARIABLES
    pc,            \* position of the running script
    script,        \* which script's run() is executing
    args_seed,     \* args.seed of the run
    process,       \* how many processes have been started
    cwd,           \* the process's working directory
    np_random,     \* state of numpy's ambient generator
    py_random,     \* state of Python's ambient generator (random)
    oracle,        \* the outputs each seeded generator has produced so far
    graph,         \* the canonical source graph handed to ESWR
    caller,        \* who called the function that is executing
    variant,       \* which ESWR is executing: "utils" or "cora"
    n_graphs,      \* ESWR's n_graphs argument
    sampler_list,  \* the samplers ESWR built
    i,             \* ESWR's loop counter
    graphs,        \* ESWR's result list
    runs,          \* the ESWR calls the script made itself, oldest first
    G,             \* download_cora: the graph read from cora_ml.npz
    tensors,       \* download_cora: the tensor objects created, in order of creation
    attrs,         \* download_cora: for each node annotated so far, the tensor object G.nodes[node]["attrs"] refers to
    fs_cora_dir,   \* original_datasets/cora exists
    fs_npz,        \* original_datasets/cora/cora_ml.npz exists
    fs_processed,  \* the files of root/processed, by index
    start_dir,     \* download_cora's start_dir
    stage,         \* CoraDataset.stage of the handle under construction
    num,           \* CoraDataset.num of the handle under construction
    existed,       \* the processed files that existed when the constructor was called
    built,         \* process() was called by the constructor that is running
    data_list,     \* process(): the list of Data objects
    handles,       \* the handles constructed so far, oldest first
    at_call,       \* the processed files and the number of handles when the constructor was called, and the download_cora calls that have returned since
    fetches,       \* remote fetches made by the download_cora call under way
    remote,        \* size of the largest component of the graph served at zip_url
    sources,       \* get_big_dataset: the length of each source handle
    combined,      \* get_big_dataset: the handle being merged into
    merge_pc,      \* get_big_dataset: position
    merge_k,       \* get_big_dataset: handles of the current loop merged so far
    supplied,      \* the handles merged so far, in the order they were added
    data,          \* the Data object handed to better_to_nx / vis_from_pyg
    nx_out         \* what better_to_nx / vis_from_pyg built

procVars == <<script, args_seed, process, cwd>>
rngVars == <<np_random, py_random, oracle>>
frameVars == <<caller, variant, n_graphs, sampler_list, i, graphs>>
eswrVars == <<pc, procVars, rngVars, frameVars, runs, graph>>
fsVars == <<fs_cora_dir, fs_npz, fs_processed>>
ctorVars == <<start_dir, stage, num, existed, built, data_list>>
callVars == <<at_call, fetches, remote>>
rawVars == <<G, tensors, attrs>>
cacheVars == <<rawVars, fsVars, ctorVars, handles, callVars>>
mergeVars == <<sources, combined, merge_pc, merge_k, supplied>>
nxVars == <<data, nx_out>>

vars == <<eswrVars, cacheVars, mergeVars, nxVars>>

\* ---------------------------------------------------------------- bounds
MaxN == 2          \* largest n_graphs requested
MaxRuns == 2       \* processes, and direct ESWR calls, followed in one behaviour
MaxSeed == 1       \* args.seed ranges over 0..MaxSeed
MaxRaw == 0        \* generator outputs 0..MaxRaw are considered (plus the last index)
MinNodes == 40     \* the small source graph
MaxNodes == 100    \* the large source graph
ChordAt == 1       \* where the source graph's chord starts
MaxRawNodes == 4   \* largest raw graph handed to the component extraction
TieSize == 3       \* node count of each of two equally large components
MaxClass == 1      \* class labels range over 0..MaxClass
CoraNodes == 50    \* size of the largest component of the raw graph in cora_ml.npz
MaxCalls == 2      \* CoraDataset constructions followed in one behaviour
MaxNum == 2        \* largest num a CoraDataset is asked for
MaxLen == 2        \* largest source handle merged
MaxK == 3          \* most node rows of a Data object that is rebuilt
MaxEdges == 2      \* most edge columns of a Data object that is rebuilt

\* ------------------------------------------------------ program constants
BudgetLo == 24     \* range(24, 96)
BudgetHi == 96
CoraSize == 48     \* ESWR(fb_graph, num, 48)

possible_samplers ==
    <<"MetropolisHastingsRandomWalkSampler", "DiffusionSampler", "DepthFirstSearchSampler">>

Seeds == 0..MaxSeed
Scripts == {"transfer", "interactive_validation"}

Min(a, b) == IF a < b THEN a ELSE b

\* --------------------------------------------------------- source graphs
\* A connected graph on nodes 0..n-1 (what download_cora hands on): a path
\* with one chord, so that samples taken at different places differ.
SourceGraph(n) ==
    [n |-> n,
     edges |-> {<<u, u + 1>> : u \in 0..(n - 2)} \cup {<<ChordAt, ChordAt + 2>>}]

GraphSizes == {MinNodes, MaxNodes}

NoGraph == [n |-> 0, edges |-> {}]
NoRawGraph == [n |-> 0, edges |-> {}, y |-> <<>>]

\* ------------------------------------------------------------ generators
\* A generator state is the seed it was last seeded with and the number of
\* outputs drawn since. A seed is tagged with who chose it: the user
\* (args.seed), the sampler library (its default), or nobody (OS entropy, the
\* state of a fresh process).
EntropySeed == <<"entropy", 0>>
SamplerDefaultSeed == <<"sampler_default", 0>>
UserSeed(s) == <<"user", s>>
Entropy == [seed |-> EntropySeed, pos |-> 0]
SeededWith(s) == [seed |-> s, pos |-> 0]

GenNames == {"np", "py"}
GenSeeds == {UserSeed(s) : s \in Seeds} \cup {SamplerDefaultSeed}
EmptyOracle == [gen \in GenNames |-> [s \in GenSeeds |-> <<>>]]

\* The raw outputs considered: the low ones and the one that selects the
\* last entry of the sampler list.
RawOutputs ==
    (0..MaxRaw) \cup {Len(possible_samplers) * (BudgetHi - BudgetLo) - 1}

\* The outputs a generator gen in state st may give, with oracle orc: a
\* seeded generator repeats what it gave before from the same seed and
\* position, an unseeded one gives anything.
DrawValues(orc, gen, st) ==
    IF st.seed = EntropySeed THEN RawOutputs
    ELSE IF st.pos < Len(orc[gen][st.seed]) THEN {orc[gen][st.seed][st.pos + 1]}
    ELSE RawOutputs

Recorded(orc, gen, st, v) ==
    IF st.seed = EntropySeed \/ st.pos < Len(orc[gen][st.seed]) THEN orc
    ELSE [orc EXCEPT ![gen][st.seed] = Append(@, v)]

Advance(st) == IF st.seed = EntropySeed THEN st ELSE [st EXCEPT !.pos = @ + 1]

\* setup_seed(seed): np.random.seed(seed); random.seed(seed)
setup_seed(s) == [np |-> SeededWith(UserSeed(s)), py |-> SeededWith(UserSeed(s))]

\* A sampler constructor: sampler(i) / MetropolisHastingsRandomWalkSampler(
\* number_of_nodes=size). No seed is passed, so the library default seeds
\* both ambient generators.
NewSamplerUnseeded(alg, budget, np, py) ==
    [sampler |-> [alg |-> alg, number_of_nodes |-> budget], np |-> np, py |-> py]

NewSampler(alg, budget, np, py) ==
    [sampler |-> [alg |-> alg, number_of_nodes |-> budget],
     np |-> SeededWith(SamplerDefaultSeed),
     py |-> SeededWith(SamplerDefaultSeed)]

\* ------------------------------------------------------------- sampling
\* The nodes sampler.sample(graph) visits from the seed node the generator
\* output picks: budget nodes around it (requires budget <= g.n).
SampledNodes(g, budget, v) ==
    LET lo == Min(v % g.n, g.n - budget)
    IN  lo..(lo + budget - 1)

\* graph.subgraph(nodes)
Subgraph(g, S) ==
    [nodes |-> S, edges |-> {e \in g.edges : e[1] \in S /\ e[2] \in S}]

\* nx.convert_node_labels_to_integers: mapping = dict(zip(G.nodes(), range(N))),
\* the j-th node in node order becomes j.
NodeMapping(S) == [x \in S |-> Cardinality({y \in S : y < x})]

convert_node_labels_to_integers_keep(sub) == sub

convert_node_labels_to_integers(sub) ==
    LET mapping == NodeMapping(sub.nodes)
    IN  [nodes |-> {mapping[x] : x \in sub.nodes},
         edges |-> {<<mapping[e[1]], mapping[e[2]]>> : e \in sub.edges}]

\* sampler.sample(graph) raises when the budget exceeds the graph
SampleRaises(g, sampler) == sampler.number_of_nodes > g.n

OneSample(g, sampler, v) ==
    convert_node_labels_to_integers(Subgraph(g, SampledNodes(g, sampler.number_of_nodes, v)))

\* ---------------------------------------------------- the sampler list
\* for sampler in possible_samplers: for i in range(24, 96): append(sampler(i))
PoolWidth == BudgetHi - BudgetLo

BuildSamplerListWide ==
    [p \in 1..(Len(possible_samplers) * (PoolWidth + 1)) |->
        [alg |-> possible_samplers[((p - 1) \div (PoolWidth + 1)) + 1],
         number_of_nodes |-> BudgetLo + ((p - 1) % (PoolWidth + 1))]]

\* The list of the first algorithm's samplers only.
BuildSamplerListOneAlgorithm ==
    [p \in 1..PoolWidth |->
        [alg |-> possible_samplers[1], number_of_nodes |-> BudgetLo + (p - 1)]]

BuildSamplerList ==
    [p \in 1..(Len(possible_samplers) * PoolWidth) |->
        NewSampler(possible_samplers[((p - 1) \div PoolWidth) + 1],
                   BudgetLo + ((p - 1) % PoolWidth), np_random, py_random).sampler]

\* ------------------------------------------- download_cora: the graph
\* G = to_networkx(read_npz(...), to_undirected=True): nodes 0..n-1 in that
\* order, undirected edges <<u, v>> with u < v, class labels y.
AllEdges(n) == {e \in (0..(n - 1)) \X (0..(n - 1)) : e[1] < e[2]}

ClassOf(v) == v % (MaxClass + 1)

\* Raw graphs whose two largest components have the same node count and
\* differ in shape: a path and a cycle of TieSize nodes each, the path
\* enumerated first, the cycle enumerated first, and the two interleaved.
PathOn(ns) == {<<ns[k], ns[k + 1]>> : k \in 1..(Len(ns) - 1)}
CycleOn(ns) == PathOn(ns) \cup {<<ns[1], ns[Len(ns)]>>}

TieGraphs ==
    LET low == [k \in 1..TieSize |-> k - 1]
        high == [k \in 1..TieSize |-> TieSize + k - 1]
        even == [k \in 1..TieSize |-> 2 * (k - 1)]
        odd == [k \in 1..TieSize |-> 2 * (k - 1) + 1]
    IN  {[n |-> 2 * TieSize, edges |-> es, y |-> [v \in 0..(2 * TieSize - 1) |-> ClassOf(v)]]
            : es \in {PathOn(low) \cup CycleOn(high), CycleOn(low) \cup PathOn(high),
                      PathOn(even) \cup CycleOn(odd), CycleOn(even) \cup PathOn(odd)}}

RawGraphs ==
    UNION {[n : {k}, edges : SUBSET AllEdges(k), y : {[v \in 0..(k - 1) |-> ClassOf(v)]}]
             : k \in 1..MaxRawNodes}
    \cup TieGraphs

Neighbours(g, S) ==
    {e[2] : e \in {d \in g.edges : d[1] \in S}} \cup {e[1] : e \in {d \in g.edges : d[2] \in S}}

\* the nodes a breadth-first search from the nodes seen reaches
RECURSIVE PlainBfs(_, _)
PlainBfs(g, seen) ==
    LET next == Neighbours(g, seen) \ seen
    IN  IF next = {} THEN seen ELSE PlainBfs(g, seen \cup next)

\* nx.connected_components(G): for v in G: if v not in seen: yield bfs(v)
RECURSIVE ComponentsFrom(_, _, _)
ComponentsFrom(g, v, seen) ==
    IF v >= g.n THEN <<>>
    ELSE IF v \in seen THEN ComponentsFrom(g, v + 1, seen)
    ELSE LET c == PlainBfs(g, {v})
         IN  <<c>> \o ComponentsFrom(g, v + 1, seen \cup c)

connected_components(g) == ComponentsFrom(g, 0, {})

\* A descending sort that puts a component before the equally large ones
\* enumerated earlier.
RECURSIVE InsertDescendingLater(_, _)
InsertDescendingLater(sorted, c) ==
    IF sorted = <<>> THEN <<c>>
    ELSE IF Cardinality(Head(sorted)) > Cardinality(c)
         THEN <<Head(sorted)>> \o InsertDescendingLater(Tail(sorted), c)
         ELSE <<c>> \o sorted

\* sorted(CGs, key=number_of_nodes, reverse=True): descending and stable
RECURSIVE InsertDescending(_, _)
InsertDescending(sorted, c) ==
    IF sorted = <<>> THEN <<c>>
    ELSE IF Cardinality(Head(sorted)) >= Cardinality(c)
         THEN <<Head(sorted)>> \o InsertDescending(Tail(sorted), c)
         ELSE <<c>> \o sorted

RECURSIVE SortedDescending(_)
SortedDescending(cs) ==
    IF cs = <<>> THEN <<>>
    ELSE InsertDescending(SortedDescending(SubSeq(cs, 1, Len(cs) - 1)), cs[Len(cs)])

Unsorted(cs) == cs

SortedCGs(cs) == SortedDescending(cs)

\* CGs = sorted(...); graph = CGs[0]; graph = convert_node_labels_to_integers(graph)
LargestComponent(g) ==
    LET CGs == SortedCGs(connected_components(g))
        sub == convert_node_labels_to_integers(Subgraph(g, CGs[1]))
    IN  [n |-> Cardinality(sub.nodes), edges |-> sub.edges]

\* A graph stored in cora_ml.npz: one large component, of n nodes, and a
\* small one.
RawCoraOf(n) ==
    [n |-> n + 2,
     edges |-> SourceGraph(n).edges \cup {<<n, n + 1>>},
     y |-> [v \in 0..(n + 1) |-> ClassOf(v)]]

RawCora == RawCoraOf(CoraNodes)

\* what download_cora returns
CoraGraph == LargestComponent(RawCora)

\* The graphs zip_url may serve: the one above, and one whose largest
\* component is smaller than the budget get_cora_dataset samples with.
RemoteSizes == {MinNodes, CoraNodes}
CoraGraphs == [n \in RemoteSizes |-> LargestComponent(RawCoraOf(n))]

\* ------------------------------------------------- processed files
Stages == {"train", "val", "test"}
\* The paths of train and val exchanged.
stage_to_swapped == [s \in Stages |-> CASE s = "train" -> 1 [] s = "val" -> 0 [] s = "test" -> 2]

stage_to_index == [s \in Stages |-> CASE s = "train" -> 0 [] s = "val" -> 1 [] s = "test" -> 2]
FileIndexes == {stage_to_index[s] : s \in Stages}

NoFile ==
    [exists |-> FALSE,
     complete |-> FALSE,
     data |-> [x_rows |-> 0, edge_index |-> <<>>],
     slices |-> [x |-> <<>>, edge_index |-> <<>>]]

\* what an interrupted torch.save leaves at the path it opened for writing
TruncatedFile == [NoFile EXCEPT !.exists = TRUE]

\* torch.load(path) succeeds
Loadable(file) == file.exists /\ file.complete

\* files_exist(self.processed_paths): every name of processed_file_names
files_exist(files) == \A k \in FileIndexes : files[k].exists

LexLeq(e, d) == e[1] < d[1] \/ (e[1] = d[1] /\ e[2] <= d[2])

\* the directed edges of a graph, as the columns of edge_index
RECURSIVE EdgeList(_)
EdgeList(S) ==
    IF S = {} THEN <<>>
    ELSE LET e == CHOOSE c \in S : \A d \in S : LexLeq(c, d)
         IN  <<e>> \o EdgeList(S \ {e})

\* pyg.utils.from_networkx(g, ...), then data.y = None
from_networkx(sample) ==
    [num_nodes |-> Cardinality(sample.nodes),
     edge_index |-> EdgeList(sample.edges \cup {<<e[2], e[1]>> : e \in sample.edges}),
     y |-> "None"]

RECURSIVE Cumulative(_)
Cumulative(sizes) ==
    IF sizes = <<>> THEN <<0>>
    ELSE LET front == Cumulative(SubSeq(sizes, 1, Len(sizes) - 1))
         IN  Append(front, front[Len(front)] + sizes[Len(sizes)])

RECURSIVE Flattened(_)
Flattened(lists) ==
    IF lists = <<>> THEN <<>> ELSE Head(lists) \o Flattened(Tail(lists))

\* self.collate(data_list), as torch.save writes it
collate(list) ==
    LET node_counts == [j \in 1..Len(list) |-> list[j].num_nodes]
        edge_counts == [j \in 1..Len(list) |-> Len(list[j].edge_index)]
    IN  [exists |-> TRUE,
         complete |-> TRUE,
         data |-> [x_rows |-> Cumulative(node_counts)[Len(list) + 1],
                   edge_index |-> Flattened([j \in 1..Len(list) |-> list[j].edge_index])],
         slices |-> [x |-> Cumulative(node_counts), edge_index |-> Cumulative(edge_counts)]]

\* the j-th sample of a loaded file (InMemoryDataset.get)
get_sample(file, j) ==
    [num_nodes |-> file.slices.x[j + 1] - file.slices.x[j],
     edge_index |-> SubSeq(file.data.edge_index,
                           file.slices.edge_index[j] + 1, file.slices.edge_index[j + 1]),
     y |-> "None"]

LoadedSplit(file) == [j \in 1..(Len(file.slices.x) - 1) |-> get_sample(file, j)]

\* a processed file an earlier run of process() left under root/processed
EarlierFile ==
    collate(<<from_networkx(OneSample(CoraGraph,
        NewSampler("MetropolisHastingsRandomWalkSampler", CoraSize, Entropy, Entropy).sampler,
        0))>>)

\* ------------------------------------------------------------------ Init
\* no script is running
ScriptIdle ==
    /\ pc = "idle"
    /\ script = "none"
    /\ args_seed = 0
    /\ process = 0
    /\ cwd = "start"
    /\ np_random = Entropy
    /\ py_random = Entropy
    /\ oracle = EmptyOracle
    /\ caller = "none"
    /\ variant = "none"
    /\ n_graphs = 0
    /\ sampler_list = <<>>
    /\ i = 0
    /\ graphs = <<>>
    /\ runs = <<>>

NoCall == [files |-> [k \in FileIndexes |-> NoFile], ready |-> 0, acquired |-> 0]

\* download_cora has created no tensor and annotated no node
NotAnnotated ==
    /\ tensors = <<>>
    /\ attrs = <<>>

\* a fresh checkout: nothing downloaded, nothing processed
CacheIdle ==
    /\ G = NoRawGraph
    /\ NotAnnotated
    /\ fs_cora_dir = FALSE
    /\ fs_npz = FALSE
    /\ fs_processed = [k \in FileIndexes |-> NoFile]
    /\ start_dir = "none"
    /\ stage = "none"
    /\ num = 0
    /\ existed = {}
    /\ built = FALSE
    /\ data_list = <<>>
    /\ handles = <<>>
    /\ at_call = NoCall
    /\ fetches = 0
    /\ remote = CoraNodes

NoDataset == [kind |-> "none"]

MergeIdle ==
    /\ sources = <<>>
    /\ combined = NoDataset
    /\ merge_pc = "idle"
    /\ merge_k = 0
    /\ supplied = <<>>

NoData == [x |-> <<>>, edge_index |-> <<>>]
NoNx == [fn |-> "none", nodes |-> {}, edges |-> {}, labels |-> <<>>]

NxIdle ==
    /\ data = NoData
    /\ nx_out = NoNx

ESWRInit ==
    /\ ScriptIdle
    /\ graph \in {SourceGraph(n) : n \in GraphSizes}
    /\ CacheIdle
    /\ MergeIdle
    /\ NxIdle

\* --------------------------------------------------- the script's frame
\* A fresh process starts one of the scripts in the project directory: its
\* generators are unseeded.
StartProcess ==
    /\ pc = "idle"
    /\ process < MaxRuns
    /\ \E s \in Scripts, sd \in Seeds :
        /\ script' = s
        /\ args_seed' = sd
    /\ process' = process + 1
    /\ cwd' = "start"
    /\ np_random' = Entropy
    /\ py_random' = Entropy
    /\ pc' = "run"
    /\ UNCHANGED <<oracle, frameVars, runs, graph>>

\* interactive_validation.run: logs the seed and calls setup_seed(args.seed)
InteractiveValidationRun ==
    /\ pc = "run"
    /\ script = "interactive_validation"
    /\ np_random' = setup_seed(args_seed).np
    /\ py_random' = setup_seed(args_seed).py
    /\ pc' = "main"
    /\ UNCHANGED <<procVars, oracle, frameVars, runs, graph>>

\* transfer.run: logs the seed; the call of setup_seed is commented out
TransferRun ==
    /\ pc = "run"
    /\ script = "transfer"
    /\ pc' = "main"
    /\ UNCHANGED <<procVars, rngVars, frameVars, runs, graph>>

\* where a script that died stopped: "crashed" is the ValueError of
\* sampler.sample, the others name what failed in CoraDataset
Crashes == {"crashed", "chdir_failed", "acquisition_failed", "write_interrupted", "read_failed"}

\* the script ends, or dies of the exception nothing catches
ProcessExit ==
    /\ pc \in {"main"} \cup Crashes
    /\ pc' = "idle"
    /\ script' = "none"
    /\ args_seed' = 0
    /\ cwd' = "start"
    /\ np_random' = Entropy
    /\ py_random' = Entropy
    /\ UNCHANGED <<process, oracle, frameVars, runs, graph>>

\* ----------------------------------------------------------------- ESWR
\* utils.ESWR(graph, n_graphs, size): builds the sampler list
UtilsESWRCall ==
    /\ pc = "main"
    /\ Len(runs) < MaxRuns
    /\ \E n \in 0..MaxN : n_graphs' = n
    /\ caller' = "main"
    /\ variant' = "utils"
    /\ sampler_list' = BuildSamplerList
    /\ LET last == NewSampler(possible_samplers[Len(possible_samplers)], BudgetHi - 1,
                              np_random, py_random)
       IN  /\ np_random' = last.np
           /\ py_random' = last.py
    /\ i' = 0
    /\ graphs' = <<>>
    /\ pc' = "eswr_loop"
    /\ UNCHANGED <<procVars, oracle, runs, graph>>

\* cora_dataset.ESWR(graph, n_graphs, size), entered with size 48: one sampler
CoraESWREnter(n, who) ==
    /\ n_graphs' = n
    /\ caller' = who
    /\ variant' = "cora"
    /\ LET made == NewSampler("MetropolisHastingsRandomWalkSampler", CoraSize,
                              np_random, py_random)
       IN  /\ sampler_list' = <<made.sampler>>
           /\ np_random' = made.np
           /\ py_random' = made.py
    /\ i' = 0
    /\ graphs' = <<>>
    /\ pc' = "eswr_loop"

CoraESWRCall ==
    /\ pc = "main"
    /\ Len(runs) < MaxRuns
    /\ \E n \in 0..MaxN : CoraESWREnter(n, "main")
    /\ UNCHANGED <<procVars, oracle, runs, graph>>

RunRecord(outcome) ==
    [process |-> process, script |-> script, seed |-> args_seed, variant |-> variant,
     n |-> n_graphs, outcome |-> outcome, graphs |-> graphs]

\* ESWR's frame is left: its locals are gone.
LocalsDropped ==
    /\ caller' = "none"
    /\ variant' = "none"
    /\ n_graphs' = 0
    /\ sampler_list' = <<>>
    /\ i' = 0
    /\ graphs' = <<>>

\* sampler.sample raised: the ValueError leaves ESWR and nothing is returned.
Raised ==
    /\ pc' = "crashed"
    /\ runs' = IF caller = "main" THEN Append(runs, RunRecord("raised")) ELSE runs
    /\ LocalsDropped

\* The iteration of the loop appends what one draw gives.
AppendedTwice(gs, s) == Append(Append(gs, s), s)

\* The iteration appends what the sampler object gives when it still holds
\* the nodes of its previous sample: the first sample again.
AppendedCarrying(gs, s) == Append(gs, IF gs = <<>> THEN s ELSE gs[1])

Appended(gs, s) == Append(gs, s)

\* utils.ESWR, one iteration: sampler = sampler_list[np.random.randint(len)];
\* graphs.append(convert_node_labels_to_integers(sampler.sample(graph)))
UtilsESWRStep ==
    /\ pc = "eswr_loop"
    /\ variant = "utils"
    /\ i < n_graphs
    /\ \E r \in DrawValues(oracle, "np", np_random) :
        LET sampler == sampler_list[(r % Len(sampler_list)) + 1]
            orc1 == Recorded(oracle, "np", np_random, r)
        IN  /\ np_random' = Advance(np_random)
            /\ IF SampleRaises(graph, sampler)
               THEN /\ Raised
                    /\ oracle' = orc1
                    /\ UNCHANGED py_random
               ELSE \E v \in DrawValues(orc1, "py", py_random) :
                    /\ graphs' = Appended(graphs, OneSample(graph, sampler, v))
                    /\ oracle' = Recorded(orc1, "py", py_random, v)
                    /\ py_random' = Advance(py_random)
                    /\ i' = i + 1
                    /\ UNCHANGED <<pc, runs, caller, variant, n_graphs, sampler_list>>
    /\ UNCHANGED <<procVars, graph>>

\* cora_dataset.ESWR, one element of the list comprehension
CoraESWRStep ==
    /\ pc = "eswr_loop"
    /\ variant = "cora"
    /\ i < n_graphs
    /\ LET sampler == sampler_list[1]
       IN  IF SampleRaises(graph, sampler)
           THEN /\ Raised
                /\ UNCHANGED <<py_random, oracle>>
           ELSE \E v \in DrawValues(oracle, "py", py_random) :
                /\ graphs' = Appended(graphs, OneSample(graph, sampler, v))
                /\ oracle' = Recorded(oracle, "py", py_random, v)
                /\ py_random' = Advance(py_random)
                /\ i' = i + 1
                /\ UNCHANGED <<pc, runs, caller, variant, n_graphs, sampler_list>>
    /\ UNCHANGED <<procVars, np_random, graph>>

\* return graphs, to the script
ESWRReturn ==
    /\ pc = "eswr_loop"
    /\ caller = "main"
    /\ i >= n_graphs
    /\ runs' = Append(runs, RunRecord("returned"))
    /\ pc' = "main"
    /\ LocalsDropped
    /\ UNCHANGED <<procVars, rngVars, graph>>

\* what the script and ESWR leave alone
besideESWR == <<cacheVars, mergeVars, nxVars>>

ESWRNext ==
    \/ StartProcess /\ UNCHANGED besideESWR
    \/ InteractiveValidationRun /\ UNCHANGED besideESWR
    \/ TransferRun /\ UNCHANGED besideESWR
    \/ UtilsESWRCall /\ UNCHANGED besideESWR
    \/ CoraESWRCall /\ UNCHANGED besideESWR
    \/ UtilsESWRStep /\ UNCHANGED besideESWR
    \/ CoraESWRStep /\ UNCHANGED besideESWR
    \/ ESWRReturn /\ UNCHANGED besideESWR
    \/ ProcessExit /\ UNCHANGED besideESWR

SpecESWR == ESWRInit /\ [][ESWRNext]_vars

\* ------------------------------------ the component extraction on its own
\* download_cora, lines 40 to 62, applied to every small raw graph
ExtractInit ==
    /\ ScriptIdle
    /\ graph = NoGraph
    /\ G \in RawGraphs
    /\ NotAnnotated
    /\ fs_cora_dir = TRUE
    /\ fs_npz = TRUE
    /\ fs_processed = [k \in FileIndexes |-> NoFile]
    /\ start_dir = "none"
    /\ stage = "none"
    /\ num = 0
    /\ existed = {}
    /\ built = FALSE
    /\ data_list = <<>>
    /\ handles = <<>>
    /\ at_call = NoCall
    /\ fetches = 0
    /\ remote = CoraNodes
    /\ MergeIdle
    /\ NxIdle

\* base_tensor = torch.Tensor([0, 0, 0, 0, 0, 0, 0, 0, 0]): one new object
AttrWidth == 9
ZeroTensor == [k \in 1..AttrWidth |-> 0]

MakeBaseTensor ==
    /\ tensors = <<>>
    /\ tensors' = <<ZeroTensor>>
    /\ UNCHANGED <<G, attrs, graph>>
    /\ UNCHANGED <<pc, procVars, rngVars, frameVars, runs>>
    /\ UNCHANGED <<fsVars, ctorVars, handles, callVars, mergeVars, nxVars>>

\* The object base_tensor names: the first one created.
base_tensor == 1

\* for node in list(G.nodes()), one iteration: class_tensor = base_tensor
\* binds the name to the same object (no copy is made); class_tensor[0] =
\* node_classes[node] writes into that object; G.nodes[node]["attrs"] =
\* class_tensor stores the reference.
AnnotateNode ==
    /\ tensors # <<>>
    /\ Len(attrs) < G.n
    /\ LET node == Len(attrs)
           class_tensor == base_tensor
       IN  /\ tensors' = [tensors EXCEPT ![class_tensor][1] = G.y[node]]
           /\ attrs' = Append(attrs, class_tensor)
    /\ UNCHANGED <<G, graph>>
    /\ UNCHANGED <<pc, procVars, rngVars, frameVars, runs>>
    /\ UNCHANGED <<fsVars, ctorVars, handles, callVars, mergeVars, nxVars>>

\* CGs = ...; graph = convert_node_labels_to_integers(CGs[0]), once every
\* node is annotated
ExtractLargestComponent ==
    /\ tensors # <<>>
    /\ Len(attrs) = G.n
    /\ graph = NoGraph
    /\ graph' = LargestComponent(G)
    /\ UNCHANGED <<pc, procVars, rngVars, frameVars, runs, cacheVars, mergeVars, nxVars>>

ExtractNext ==
    \/ MakeBaseTensor
    \/ AnnotateNode
    \/ ExtractLargestComponent

SpecExtract == ExtractInit /\ [][ExtractNext]_vars

\* --------------------------------------------------------- CoraDataset
\* The processed files earlier runs may have left: none, train.pt alone, or
\* all three.
EarlierRuns == {{}, {stage_to_index["train"]}, FileIndexes}

\* A root directory as earlier runs may have left it: some processed files
\* present (then cora_ml.npz was downloaded), or none.
CacheInit ==
    /\ ScriptIdle
    /\ graph = NoGraph
    /\ G = NoRawGraph
    /\ NotAnnotated
    /\ \E present \in EarlierRuns, downloaded \in BOOLEAN :
        /\ present # {} => downloaded
        /\ fs_cora_dir = downloaded
        /\ fs_npz = downloaded
        /\ fs_processed = [k \in FileIndexes |-> IF k \in present THEN EarlierFile ELSE NoFile]
        /\ remote \in IF downloaded THEN {CoraNodes} ELSE RemoteSizes
    /\ start_dir = "none"
    /\ stage = "none"
    /\ num = 0
    /\ existed = {}
    /\ built = FALSE
    /\ data_list = <<>>
    /\ handles = <<>>
    /\ at_call = NoCall
    /\ fetches = 0
    /\ MergeIdle
    /\ NxIdle

\* the constructor's frame is left
CtorDropped ==
    /\ start_dir' = "none"
    /\ stage' = "none"
    /\ num' = 0
    /\ existed' = {}
    /\ built' = FALSE
    /\ data_list' = <<>>

\* an exception nothing catches leaves the constructor; the working directory
\* stays where it was
CtorCrashed(how) ==
    /\ pc' = how
    /\ caller' = "none"
    /\ CtorDropped

\* A constructor that looks at the processed files first and calls
\* download_cora() only when it has to build.
NewCoraDatasetCacheFirst ==
    /\ pc = "main"
    /\ Len(handles) < MaxCalls
    /\ \E s \in Stages, n \in 1..MaxNum :
        /\ stage' = s
        /\ num' = n
    /\ existed' = {k \in FileIndexes : fs_processed[k].exists}
    /\ at_call' = [files |-> fs_processed, ready |-> Len(handles), acquired |-> 0]
    /\ built' = FALSE
    /\ caller' = "init"
    /\ pc' = IF files_exist(fs_processed) THEN "super_init" ELSE "dl_enter"
    /\ UNCHANGED <<procVars, rngVars, variant, n_graphs, sampler_list, i, graphs, runs, graph>>
    /\ UNCHANGED <<rawVars, fsVars, start_dir, data_list, handles, fetches, remote>>

\* CoraDataset(root, stage, num=num): self.num, self.stage are set and
\* download_cora() is called
NewCoraDataset ==
    /\ pc = "main"
    /\ Len(handles) < MaxCalls
    /\ \E s \in Stages, n \in 1..MaxNum :
        /\ stage' = s
        /\ num' = n
    /\ existed' = {k \in FileIndexes : fs_processed[k].exists}
    /\ at_call' = [files |-> fs_processed, ready |-> Len(handles), acquired |-> 0]
    /\ built' = FALSE
    /\ caller' = "init"
    /\ pc' = "dl_enter"
    /\ UNCHANGED <<procVars, rngVars, variant, n_graphs, sampler_list, i, graphs, runs, graph>>
    /\ UNCHANGED <<rawVars, fsVars, start_dir, data_list, handles, fetches, remote>>

\* download_cora: start_dir = os.getcwd(); os.chdir("original_datasets");
\* if "cora" not in os.listdir(): mkdir, chdir (then wget) else: chdir
DownloadEnter ==
    /\ pc = "dl_enter"
    /\ IF cwd # "start"
       THEN /\ CtorCrashed("chdir_failed")
            /\ UNCHANGED <<procVars, fsVars, fetches>>
       ELSE /\ start_dir' = cwd
            /\ cwd' = "original_datasets/cora"
            /\ fs_cora_dir' = TRUE
            /\ fetches' = 0
            /\ pc' = IF fs_cora_dir THEN "dl_read" ELSE "dl_wget"
            /\ UNCHANGED <<script, args_seed, process, fs_npz, fs_processed, caller>>
            /\ UNCHANGED <<stage, num, existed, built, data_list>>
    /\ UNCHANGED <<rngVars, variant, n_graphs, sampler_list, i, graphs, runs, graph, rawVars, handles>>
    /\ UNCHANGED <<at_call, remote>>

\* One more fetch than before: a retry of the fetch inside download_cora.
WgetRetried ==
    /\ pc = "dl_wget"
    /\ fetches < 2
    /\ fetches' = fetches + 1
    /\ \/ /\ fs_npz' = TRUE
          /\ pc' = "dl_read"
          /\ UNCHANGED <<caller, ctorVars>>
       \/ /\ fetches = 1
          /\ CtorCrashed("acquisition_failed")
          /\ UNCHANGED fs_npz
       \/ /\ fetches = 0
          /\ UNCHANGED <<pc, caller, ctorVars, fs_npz>>
    /\ UNCHANGED <<procVars, rngVars, variant, n_graphs, sampler_list, i, graphs, runs, graph>>
    /\ UNCHANGED <<rawVars, fs_cora_dir, fs_processed, handles, at_call, remote>>

\* _ = wget.download(zip_url): the file arrives, or the download raises
DownloadWget ==
    /\ pc = "dl_wget"
    /\ fetches' = fetches + 1
    /\ \/ /\ fs_npz' = TRUE
          /\ pc' = "dl_read"
          /\ UNCHANGED <<caller, ctorVars>>
       \/ /\ CtorCrashed("acquisition_failed")
          /\ UNCHANGED fs_npz
    /\ UNCHANGED <<procVars, rngVars, variant, n_graphs, sampler_list, i, graphs, runs, graph>>
    /\ UNCHANGED <<rawVars, fs_cora_dir, fs_processed, handles, at_call, remote>>

\* read_npz ... convert_node_labels_to_integers; os.chdir(start_dir); return
\* graph. CoraDataset.__init__ discards the graph, get_cora_dataset keeps it.
DownloadRead ==
    /\ pc = "dl_read"
    /\ IF ~fs_npz
       THEN /\ CtorCrashed("acquisition_failed")
            /\ UNCHANGED <<cwd, graph, at_call>>
       ELSE /\ cwd' = start_dir
            /\ at_call' = [at_call EXCEPT !.acquired = @ + 1]
            /\ start_dir' = "none"
            /\ graph' = IF caller = "process" THEN CoraGraphs[remote] ELSE graph
            /\ pc' = IF caller = "init" THEN "super_init" ELSE "sample"
            /\ UNCHANGED <<caller, stage, num, existed, built, data_list>>
    /\ UNCHANGED <<script, args_seed, process, rngVars>>
    /\ UNCHANGED <<variant, n_graphs, sampler_list, i, graphs, runs, rawVars, fsVars, handles>>
    /\ UNCHANGED <<fetches, remote>>

\* super().__init__(root, ...): Dataset._process returns at once when every
\* processed path exists and calls self.process() otherwise
SuperInit ==
    /\ pc = "super_init"
    /\ IF files_exist(fs_processed)
       THEN /\ pc' = "load"
            /\ UNCHANGED <<built, caller>>
       ELSE /\ built' = TRUE
            /\ caller' = "process"
            /\ pc' = "dl_enter"
    /\ UNCHANGED <<procVars, rngVars, variant, n_graphs, sampler_list, i, graphs, runs, graph>>
    /\ UNCHANGED <<rawVars, fsVars, start_dir, stage, num, existed, data_list, handles, callVars>>

\* The same call in a builder that opens the processed path for writing
\* before it samples.
GetCoraDatasetSampleAfterOpen ==
    /\ pc = "sample"
    /\ CoraESWREnter(num, "process")
    /\ fs_processed' = [fs_processed EXCEPT ![stage_to_index[stage]] = TruncatedFile]
    /\ UNCHANGED <<procVars, oracle, runs, graph>>
    /\ UNCHANGED <<rawVars, fs_cora_dir, fs_npz, ctorVars, handles, callVars>>

\* nx_graph_list = ESWR(fb_graph, num, 48)
GetCoraDatasetSample ==
    /\ pc = "sample"
    /\ CoraESWREnter(num, "process")
    /\ UNCHANGED <<procVars, oracle, runs, graph, cacheVars>>

\* The same return taken while ESWR is still drawing: the write would start
\* on the samples generated so far.
GetCoraDatasetReturnEarly ==
    /\ pc = "eswr_loop"
    /\ caller = "process"
    /\ data_list' = [j \in 1..Len(graphs) |-> from_networkx(graphs[j])]
    /\ graph' = NoGraph
    /\ LocalsDropped
    /\ pc' = "save"
    /\ UNCHANGED <<procVars, rngVars, runs>>
    /\ UNCHANGED <<rawVars, fsVars, start_dir, stage, num, existed, built, handles, callVars>>

\* data_objects = [from_networkx(g, ...) for g in nx_graph_list]; data.y =
\* None; return data_objects (pre_filter and pre_transform are None)
GetCoraDatasetReturn ==
    /\ pc = "eswr_loop"
    /\ caller = "process"
    /\ i >= n_graphs
    /\ data_list' = [j \in 1..Len(graphs) |-> from_networkx(graphs[j])]
    /\ graph' = NoGraph
    /\ LocalsDropped
    /\ pc' = "save"
    /\ UNCHANGED <<procVars, rngVars, runs>>
    /\ UNCHANGED <<rawVars, fsVars, start_dir, stage, num, existed, built, handles, callVars>>

\* data, slices = self.collate(data_list); torch.save((data, slices),
\* self.processed_paths[self.stage_to_index[self.stage]]): torch.save opens
\* the processed path itself for writing; it completes, or the process is
\* stopped while it writes
ProcessSave ==
    /\ pc = "save"
    /\ \/ /\ fs_processed' = [fs_processed EXCEPT ![stage_to_index[stage]] = collate(data_list)]
          /\ data_list' = <<>>
          /\ pc' = "load"
          /\ UNCHANGED <<caller, start_dir, stage, num, existed, built>>
       \/ /\ fs_processed' = [fs_processed EXCEPT ![stage_to_index[stage]] = TruncatedFile]
          /\ CtorCrashed("write_interrupted")
    /\ UNCHANGED <<procVars, rngVars, variant, n_graphs, sampler_list, i, graphs, runs, graph>>
    /\ UNCHANGED <<rawVars, fs_cora_dir, fs_npz, handles, callVars>>

\* self.data, self.slices = torch.load(self.processed_paths[...]): the
\* constructor returns the handle, or torch.load raises
Load ==
    /\ pc = "load"
    /\ LET file == fs_processed[stage_to_index[stage]]
       IN  IF ~Loadable(file)
           THEN /\ CtorCrashed("read_failed")
                /\ UNCHANGED handles
           ELSE /\ handles' = Append(handles,
                        [stage |-> stage, num |-> num, existed |-> existed, built |-> built,
                         process |-> process, acquired |-> at_call.acquired,
                         split |-> LoadedSplit(file)])
                /\ pc' = "main"
                /\ caller' = "none"
                /\ CtorDropped
    /\ UNCHANGED <<procVars, rngVars, variant, n_graphs, sampler_list, i, graphs, runs, graph>>
    /\ UNCHANGED <<rawVars, fsVars, callVars>>

\* the process ends: whatever frame was left open is gone
CacheProcessExit ==
    /\ ProcessExit
    /\ CtorDropped
    /\ at_call' = NoCall
    /\ fetches' = 0
    /\ UNCHANGED <<rawVars, fsVars, handles, remote>>

besideCache == <<mergeVars, nxVars>>

CacheNext ==
    \/ StartProcess /\ UNCHANGED besideESWR
    \/ InteractiveValidationRun /\ UNCHANGED besideESWR
    \/ TransferRun /\ UNCHANGED besideESWR
    \/ CacheProcessExit /\ UNCHANGED besideCache
    \/ NewCoraDataset /\ UNCHANGED besideCache
    \/ DownloadEnter /\ UNCHANGED besideCache
    \/ DownloadWget /\ UNCHANGED besideCache
    \/ DownloadRead /\ UNCHANGED besideCache
    \/ SuperInit /\ UNCHANGED besideCache
    \/ GetCoraDatasetSample /\ UNCHANGED besideCache
    \/ CoraESWRStep /\ UNCHANGED besideESWR
    \/ GetCoraDatasetReturn /\ UNCHANGED besideCache
    \/ ProcessSave /\ UNCHANGED besideCache
    \/ Load /\ UNCHANGED besideCache

SpecCache == CacheInit /\ [][CacheNext]_vars

\* ------------------------------------------------------ get_big_dataset
\* the handles get_big_dataset merges, by the directory they are rooted at
names == <<"ogbg-molclintox">>
target_name == "ogbg-molesol"
social_names == <<"facebook_large", "twitch_egos", "cora">>
InputOrder == <<target_name>> \o names \o social_names
AllNames == {InputOrder[h] : h \in 1..Len(InputOrder)}

\* A source handle: its samples are <<name, 0>> .. <<name, len - 1>>.
Leaf(name) == [kind |-> "leaf", name |-> name, len |-> sources[name]]

\* len(handle)
DsLen(d) == IF d.kind = "leaf" THEN d.len ELSE d.cumulative_sizes[Len(d.cumulative_sizes)]

\* ConcatDataset.cumsum
RECURSIVE Cumsum(_)
Cumsum(ds) ==
    IF ds = <<>> THEN <<>>
    ELSE LET front == Cumsum(SubSeq(ds, 1, Len(ds) - 1))
         IN  Append(front, (IF front = <<>> THEN 0 ELSE front[Len(front)]) + DsLen(ds[Len(ds)]))

ConcatDataset(ds) == [kind |-> "concat", datasets |-> ds, cumulative_sizes |-> Cumsum(ds)]

\* a + b on dataset handles
IAdd(a, b) == ConcatDataset(<<a, b>>)

\* bisect.bisect_right(a, x)
BisectRight(a, x) == Cardinality({j \in 1..Len(a) : a[j] <= x})

\* handle[idx], for 0 <= idx < len(handle)
RECURSIVE DsGet(_, _)
DsGet(d, idx) ==
    IF d.kind = "leaf" THEN <<d.name, idx>>
    ELSE LET dataset_idx == BisectRight(d.cumulative_sizes, idx)
             sample_idx == IF dataset_idx = 0 THEN idx
                           ELSE idx - d.cumulative_sizes[dataset_idx]
         IN  DsGet(d.datasets[dataset_idx + 1], sample_idx)

\* combined += data
MergeIntoDropped(c, d) == c

MergeIntoFront(c, d) == IAdd(d, c)

MergeInto(c, d) == IAdd(c, d)

MergeInit ==
    /\ ScriptIdle
    /\ graph = NoGraph
    /\ CacheIdle
    /\ NxIdle
    /\ sources \in [AllNames -> 0..MaxLen]
    /\ combined = NoDataset
    /\ merge_pc = "start"
    /\ merge_k = 0
    /\ supplied = <<>>

\* datasets = [FromOGBDataset(...) for names];
\* combined = FromOGBDataset(.. 'ogbg-molesol', dataset)
GetBigDatasetStart ==
    /\ merge_pc = "start"
    /\ combined' = Leaf(target_name)
    /\ supplied' = <<target_name>>
    /\ merge_k' = 0
    /\ merge_pc' = "ogb"
    /\ UNCHANGED sources

\* for data in datasets: combined += data
MergeOgb ==
    /\ merge_pc = "ogb"
    /\ merge_k < Len(names)
    /\ combined' = MergeInto(combined, Leaf(names[merge_k + 1]))
    /\ supplied' = Append(supplied, names[merge_k + 1])
    /\ merge_k' = merge_k + 1
    /\ UNCHANGED <<sources, merge_pc>>

\* the first loop ends; social_datasets = [FacebookDataset, EgoDataset, CoraDataset]
BuildSocial ==
    /\ merge_pc = "ogb"
    /\ merge_k = Len(names)
    /\ merge_k' = 0
    /\ merge_pc' = "social"
    /\ UNCHANGED <<sources, combined, supplied>>

\* for data in social_datasets: combined += data
MergeSocial ==
    /\ merge_pc = "social"
    /\ merge_k < Len(social_names)
    /\ combined' = MergeInto(combined, Leaf(social_names[merge_k + 1]))
    /\ supplied' = Append(supplied, social_names[merge_k + 1])
    /\ merge_k' = merge_k + 1
    /\ UNCHANGED <<sources, merge_pc>>

\* return DataLoader(combined, ...)
GetBigDatasetReturn ==
    /\ merge_pc = "social"
    /\ merge_k = Len(social_names)
    /\ merge_pc' = "done"
    /\ UNCHANGED <<sources, combined, merge_k, supplied>>

besideMerge == <<eswrVars, cacheVars, nxVars>>

MergeNext ==
    \/ GetBigDatasetStart /\ UNCHANGED besideMerge
    \/ MergeOgb /\ UNCHANGED besideMerge
    \/ BuildSocial /\ UNCHANGED besideMerge
    \/ MergeSocial /\ UNCHANGED besideMerge
    \/ GetBigDatasetReturn /\ UNCHANGED besideMerge

SpecMerge == MergeInit /\ [][MergeNext]_vars

\* ------------------------------------------ better_to_nx, vis_from_pyg
SeqsUpTo(S, n) == UNION {[1..m -> S] : m \in 0..n}

\* Data objects: k node rows (x[:, 0] is the class label of a node), and
\* edge_index, whose columns are pairs of node indices below k
DataObjects ==
    UNION {[x : [1..k -> 0..MaxClass],
            edge_index : SeqsUpTo((0..(k - 1)) \X (0..(k - 1)), MaxEdges)]
             : k \in 0..MaxK}

EmptyNx == [nodes |-> <<>>, edges |-> {}]

InSeq(s, v) == \E p \in 1..Len(s) : s[p] = v

\* g.add_node(v)
add_node(g, v) == IF InSeq(g.nodes, v) THEN g ELSE [g EXCEPT !.nodes = Append(@, v)]

\* g.add_edges_from(edges): each row adds its two endpoints and the edge
RECURSIVE add_edges_from(_, _)
add_edges_from(g, edges) ==
    IF edges = <<>> THEN g
    ELSE LET e == Head(edges)
             with_nodes == add_node(add_node(g, e[1]), e[2])
         IN  add_edges_from([with_nodes EXCEPT !.edges = @ \cup {{e[1], e[2]}}], Tail(edges))

\* np.unique(edges)
unique(edges) == {edges[p][1] : p \in 1..Len(edges)} \cup {edges[p][2] : p \in 1..Len(edges)}

\* for ilabel in range(labels.shape[0]): if ilabel not in np.unique(edges):
\*     g.add_node(ilabel)
RECURSIVE AddIsolated(_, _, _, _)
AddIsolated(g, edges, ilabel, rows) ==
    IF ilabel >= rows THEN g
    ELSE AddIsolated(IF ilabel \notin unique(edges) THEN add_node(g, ilabel) ELSE g,
                     edges, ilabel + 1, rows)

IsolatedNodesSkipped(g, edges, rows) == g

IsolatedNodesAdded(g, edges, rows) == AddIsolated(g, edges, 0, rows)

\* utils.better_to_nx(data): returns g, labels
better_to_nx(d) ==
    LET edges == d.edge_index
        labels == d.x
        g == IsolatedNodesAdded(add_edges_from(EmptyNx, edges), edges, Len(labels))
    IN  [fn |-> "better_to_nx", nodes |-> g.nodes, edges |-> g.edges, labels |-> labels]

\* interactive_validation.vis_from_pyg(data): the graph it goes on to draw
vis_from_pyg(d) ==
    LET edges == d.edge_index
        labels == d.x
        g == AddIsolated(add_edges_from(EmptyNx, edges), edges, 0, Len(labels))
    IN  [fn |-> "vis_from_pyg", nodes |-> g.nodes, edges |-> g.edges, labels |-> labels]

NxInit ==
    /\ ScriptIdle
    /\ graph = NoGraph
    /\ CacheIdle
    /\ MergeIdle
    /\ data \in DataObjects
    /\ nx_out = NoNx

BetterToNx ==
    /\ nx_out.fn = "none"
    /\ nx_out' = better_to_nx(data)
    /\ UNCHANGED data

VisFromPyg ==
    /\ nx_out.fn = "none"
    /\ nx_out' = vis_from_pyg(data)
    /\ UNCHANGED data

besideNx == <<eswrVars, cacheVars, mergeVars>>

NxNext ==
    \/ BetterToNx /\ UNCHANGED besideNx
    \/ VisFromPyg /\ UNCHANGED besideNx

SpecNx == NxInit /\ [][NxNext]_vars

\* ------------------------------------------------------- ESWR: the claims
InLoop == pc = "eswr_loop"
Returning == InLoop /\ i >= n_graphs
NodeCount(sample) == Cardinality(sample.nodes)
Budgets(list) == {list[p].number_of_nodes : p \in 1..Len(list)}
MaxBudget(list) ==
    LET bs == Budgets(list) IN CHOOSE b \in bs : \A c \in bs : c <= b

C7_Contiguous ==
    InLoop =>
        LET largest == MaxBudget(sampler_list)
        IN  \A j \in 1..Len(graphs) :
            /\ graphs[j].nodes = 0..(NodeCount(graphs[j]) - 1)
            /\ NodeCount(graphs[j]) >= 1
            /\ NodeCount(graphs[j]) <= largest
            /\ \A e \in graphs[j].edges : e[1] \in graphs[j].nodes /\ e[2] \in graphs[j].nodes

\* a returned list with a sample of the largest budget of the pool, cut out
\* away from node 0 (it lacks the chord, which lies at the start of the graph)
C7_Witness ==
    /\ Returning
    /\ variant = "utils"
    /\ n_graphs = MaxN
    /\ \E j \in 1..Len(graphs) :
        /\ NodeCount(graphs[j]) = MaxBudget(sampler_list)
        /\ Cardinality(graphs[j].edges) = NodeCount(graphs[j]) - 1

\* C8: two calls of ESWR on the same graph with the same n, made by runs with
\* the same args.seed (in the same process or in two), end the same way with
\* the same samples in the same order; and every draw inside ESWR is made
\* from a seeded generator, never from the entropy-seeded state of a fresh
\* process.
C8_Deterministic ==
    /\ \A a, b \in 1..Len(runs) :
        (/\ runs[a].seed = runs[b].seed
         /\ runs[a].variant = runs[b].variant
         /\ runs[a].n = runs[b].n)
        => (runs[a].outcome = runs[b].outcome /\ runs[a].graphs = runs[b].graphs)
    /\ InLoop => (np_random.seed # EntropySeed /\ py_random.seed # EntropySeed)

\* two processes of transfer.py (which never calls setup_seed) sampled twice
C8_Witness ==
    \E a, b \in 1..Len(runs) :
        /\ runs[a].process # runs[b].process
        /\ runs[a].script = "transfer" /\ runs[b].script = "transfer"
        /\ runs[a].seed = runs[b].seed
        /\ runs[a].variant = "utils" /\ runs[b].variant = "utils"
        /\ runs[a].n = MaxN /\ runs[b].n = MaxN
        /\ runs[a].outcome = "returned" /\ runs[b].outcome = "returned"
        /\ Len(runs[a].graphs) = MaxN

\* C9 as stated: the samplers ESWR uses have budgets within [12, 48) and no
\* sample has more than 47 nodes.
SpecBudgetLo == 12
SpecBudgetHi == 48

C9_Original ==
    InLoop =>
        /\ \A b \in Budgets(sampler_list) : b \in SpecBudgetLo..(SpecBudgetHi - 1)
        /\ \A j \in 1..Len(graphs) : NodeCount(graphs[j]) \in 1..(SpecBudgetHi - 1)

\* C9 amended: utils.ESWR uses the budgets 24..95 and cora_dataset.ESWR the
\* one budget 48; every sample has between 1 and 95 nodes (48 from
\* cora_dataset.ESWR), and on a graph of at least 95 nodes every call returns
\* its n samples.
C9_BudgetRange ==
    /\ InLoop =>
        /\ variant = "utils" => Budgets(sampler_list) = BudgetLo..(BudgetHi - 1)
        /\ variant = "cora" => Budgets(sampler_list) = {CoraSize}
        /\ \A j \in 1..Len(graphs) :
            /\ NodeCount(graphs[j]) \in 1..(BudgetHi - 1)
            /\ variant = "cora" => NodeCount(graphs[j]) = CoraSize
    /\ \A k \in 1..Len(runs) :
        graph.n >= BudgetHi - 1 =>
            (runs[k].outcome = "returned" /\ Len(runs[k].graphs) = runs[k].n)

C9_Witness ==
    /\ Returning
    /\ graph.n >= BudgetHi - 1
    /\ n_graphs = MaxN
    /\ \E j \in 1..Len(graphs) : NodeCount(graphs[j]) = BudgetHi - 1
    /\ \E j \in 1..Len(graphs) : NodeCount(graphs[j]) = BudgetLo

\* ------------------------------------- component extraction: the claims
Nodes(g) == 0..(g.n - 1)
Adjacent(g, u, v) == <<u, v>> \in g.edges \/ <<v, u>> \in g.edges

\* the nodes joined to a node of S by a path of g of at most so many steps
RECURSIVE ReachableWithin(_, _, _)
ReachableWithin(g, S, steps) ==
    IF steps = 0 THEN S
    ELSE ReachableWithin(g, S \cup {v \in Nodes(g) : \E u \in S : Adjacent(g, u, v)}, steps - 1)

ComponentOf(g, u) == ReachableWithin(g, {u}, g.n)
ComponentsOf(g) == {ComponentOf(g, u) : u \in Nodes(g)}
IsConnected(g) == \A u \in Nodes(g) : ComponentOf(g, u) = Nodes(g)
InducedEdges(g, S) == {e \in g.edges : e[1] \in S /\ e[2] \in S}
Extracted == graph # NoGraph /\ G # NoRawGraph

\* C6: the extracted graph is connected, its nodes are 0..N-1, and it is the
\* image under a bijection of a component of the raw graph that no other
\* component exceeds in node count, edges included.
C6_LargestComponent ==
    Extracted =>
        /\ IsConnected(graph)
        /\ \E c \in ComponentsOf(G) :
            /\ \A d \in ComponentsOf(G) : Cardinality(d) <= Cardinality(c)
            /\ graph.n = Cardinality(c)
            /\ \E f \in [c -> Nodes(graph)] :
                /\ \A u, v \in c : u # v => f[u] # f[v]
                /\ {{f[e[1]], f[e[2]]} : e \in InducedEdges(G, c)}
                     = {{e[1], e[2]} : e \in graph.edges}
                /\ Cardinality(graph.edges) = Cardinality(InducedEdges(G, c))

\* the largest component is neither the first one enumerated nor numbered from 0
C6_Witness ==
    /\ Extracted
    /\ G.n = MaxRawNodes
    /\ ComponentOf(G, 0) = {0}
    /\ graph.n = MaxRawNodes - 1
    /\ Cardinality(graph.edges) >= 2

LeastOf(S) == CHOOSE x \in S : \A y \in S : x <= y
Largest(g) == {c \in ComponentsOf(g) : \A d \in ComponentsOf(g) : Cardinality(d) <= Cardinality(c)}

\* the largest component met first when the nodes are enumerated 0, 1, 2, ...
FirstLargest(g) ==
    CHOOSE c \in Largest(g) : \A d \in Largest(g) : LeastOf(c) <= LeastOf(d)

RankIn(c, x) == Cardinality({y \in c : y < x})

\* C23: among the components of maximal node count the extraction takes the
\* one enumerated first, and numbers its nodes 0..N-1 in their order: the
\* extracted graph is that component's, edge for edge.
C23_FirstOfTies ==
    Extracted =>
        LET c == FirstLargest(G)
        IN  /\ graph.n = Cardinality(c)
            /\ {{e[1], e[2]} : e \in graph.edges}
                 = {{RankIn(c, e[1]), RankIn(c, e[2])} : e \in InducedEdges(G, c)}

\* two components tie, the one enumerated second has more edges, and the one
\* extracted has the edges of the first
C23_Witness ==
    /\ Extracted
    /\ Cardinality(Largest(G)) = 2
    /\ \E d \in Largest(G) :
        /\ d # FirstLargest(G)
        /\ Cardinality(InducedEdges(G, d)) > Cardinality(InducedEdges(G, FirstLargest(G)))
    /\ Cardinality(graph.edges) = Cardinality(InducedEdges(G, FirstLargest(G)))
    /\ LeastOf(FirstLargest(G)) = 0
    /\ 1 \notin FirstLargest(G)

\* C16: sampling never raises, also when the source graph has fewer nodes
\* than the budget of the sampler drawn: every ESWR call returns, with n
\* samples.
C16_UnderBudgetAccepted ==
    /\ pc # "crashed"
    /\ \A k \in 1..Len(runs) :
        /\ runs[k].outcome = "returned"
        /\ Len(runs[k].graphs) = runs[k].n

Algorithms == {possible_samplers[a] : a \in 1..Len(possible_samplers)}

\* the pairs of an algorithm and a budget
Pairs == [alg : Algorithms, number_of_nodes : BudgetLo..(BudgetHi - 1)]

Entries(list) == {list[p] : p \in 1..Len(list)}

\* C18: while utils.ESWR draws, its sampler list has exactly one entry for
\* each pair of an algorithm of possible_samplers and a budget of
\* BudgetLo..BudgetHi-1, that is Len(possible_samplers) * (BudgetHi - BudgetLo)
\* entries (as many entries as pairs, and every pair among them), and no step
\* of the loop changes the list.
C18_PoolIsCrossProduct ==
    /\ [](InLoop /\ variant = "utils"
          => /\ Len(sampler_list) = Len(possible_samplers) * (BudgetHi - BudgetLo)
             /\ Len(sampler_list) = Cardinality(Pairs)
             /\ Entries(sampler_list) = Pairs)
    /\ [][InLoop /\ InLoop' => sampler_list' = sampler_list]_vars

\* utils.ESWR has made all its draws, one of them selected the last entry of
\* the list, and the list is whole
C18_Witness ==
    /\ Returning
    /\ variant = "utils"
    /\ Len(graphs) = MaxN
    /\ \E j \in 1..Len(graphs) : NodeCount(graphs[j]) = BudgetHi - 1
    /\ Len(sampler_list) = Len(possible_samplers) * (BudgetHi - BudgetLo)
    /\ sampler_list[Len(sampler_list)].number_of_nodes = BudgetHi - 1

\* the j-th output the generator gen gave since it was last seeded
DrawOf(gen, st, j) == oracle[gen][st.seed][j]

\* the sampler the j-th iteration of the loop under way used
SamplerOf(j) ==
    IF variant = "utils"
    THEN sampler_list[(DrawOf("np", np_random, j) % Len(sampler_list)) + 1]
    ELSE sampler_list[1]

AttrsOf(v) == tensors[attrs[v + 1]]

\* C17: every annotated node v carries a vector whose slot 0 is v's own class
\* label and whose other slots are zero, at every point of the annotation.
C17_OwnLabel ==
    \A v \in 0..(Len(attrs) - 1) :
        AttrsOf(v) = [k \in 1..AttrWidth |-> IF k = 1 THEN G.y[v] ELSE 0]

\* --------------------------------------------------- the cache: the claims
\* C2: of two constructions for the same root and stage, the later one returns
\* a split equal to the earlier one's (same samples, same order) and does not
\* invoke the builder.
C2_RoundTrip ==
    \A a, b \in 1..Len(handles) :
        (a < b /\ handles[a].stage = handles[b].stage)
        => (handles[b].split = handles[a].split /\ ~handles[b].built)

\* C3: a construction for stage s invokes the builder if and only if the
\* processed file of s was absent when it was called, whatever the files of
\* the other two stages.
C3_BuiltIffAbsent ==
    \A h \in 1..Len(handles) :
        handles[h].built <=> (stage_to_index[handles[h].stage] \notin handles[h].existed)

\* the constructor is running
Constructing == stage # "none"

\* C11: when the processed file of the split exists (and can be read) at the
\* call, the construction neither invokes the builder nor rewrites the file,
\* whatever num it is called with: the persisted split is returned as it was.
C11_KeyIsExistence ==
    (Constructing /\ Loadable(at_call.files[stage_to_index[stage]]))
    => /\ ~built
       /\ fs_processed[stage_to_index[stage]] = at_call.files[stage_to_index[stage]]

\* C12: at every point, a processed path either does not exist or holds a
\* complete split, also when a write was stopped partway.
C12_NeverPartial ==
    \A k \in FileIndexes : fs_processed[k].exists => fs_processed[k].complete

\* C13: a construction that finds the processed file of its split existing
\* but unreadable fails without invoking the builder and leaves the file as
\* it found it.
C13_CorruptIsFatal ==
    (Constructing /\ at_call.files[stage_to_index[stage]] = TruncatedFile)
    => /\ ~built
       /\ fs_processed[stage_to_index[stage]] = TruncatedFile

\* the constructor failed in acquisition (download_cora) or in sampling (ESWR)
FailedBeforeSave == pc \in {"chdir_failed", "acquisition_failed", "crashed"}

\* C14: when acquisition or sampling fails, the construction fails as a
\* whole: every processed file is as it was when the constructor was called
\* and no handle has been returned since.
C14_FailedBuildWritesNothing ==
    FailedBeforeSave
    => /\ fs_processed = at_call.files
       /\ Len(handles) = at_call.ready

\* a build failed in sampling: the graph fetched is smaller than the budget
C14_Witness ==
    /\ pc = "crashed"
    /\ Constructing
    /\ built
    /\ ~fs_processed[stage_to_index[stage]].exists

\* C15: a step fetches from zip_url only when cora_ml.npz is not there and
\* the download_cora call under way has not fetched before (one attempt, no
\* retry); a local copy, once there, stays, so no later call fetches.
C15_FetchOnlyWithoutCopy ==
    [][/\ (fetches' > fetches => (~fs_npz /\ fetches = 0))
       /\ (fs_npz => fs_npz')]_vars

\* download_cora is about to read the local copy that an earlier call of this
\* behaviour fetched (the small graph is never there at the start), and has
\* not fetched itself
C15_Witness ==
    /\ pc = "dl_read"
    /\ caller = "process"
    /\ fetches = 0
    /\ fs_npz
    /\ remote = MinNodes

\* C21: a step writes a processed file only from process()'s torch.save, when
\* all num samples of the split are in data_list and ESWR's frame is left;
\* the step ends the build (load, or the interrupted write), so no sample is
\* generated after it, and a write that completes holds all num samples.
C21_WriteAfterAllSamples ==
    [][fs_processed' # fs_processed
       => /\ pc = "save"
          /\ Len(data_list) = num
          /\ graphs = <<>>
          /\ pc' \in {"load", "write_interrupted"}
          /\ (pc' = "load"
              => /\ fs_processed'[stage_to_index[stage]] = collate(data_list)
                 /\ Len(LoadedSplit(fs_processed'[stage_to_index[stage]])) = num)]_vars

\* a build of the largest split asked for has written its file whole
C21_Witness ==
    /\ pc = "load"
    /\ built
    /\ num = MaxNum
    /\ fs_processed[stage_to_index[stage]] # at_call.files[stage_to_index[stage]]
    /\ Len(LoadedSplit(fs_processed[stage_to_index[stage]])) = MaxNum

\* the path index the claim names for each split
NamedIndex(s) == CASE s = "train" -> 0 [] s = "val" -> 1 [] s = "test" -> 2

\* C22: a step changes the processed file of index k only during a
\* construction for the stage whose index is k (train 0, val 1, test 2), so
\* the files of the other two splits stay as they are; and the handle a
\* construction returns holds what the file of its stage's index holds.
C22_OnlyOwnFile ==
    [][/\ \A k \in DOMAIN fs_processed :
            fs_processed'[k] # fs_processed[k]
            => (Constructing /\ built /\ k = NamedIndex(stage))
       /\ Len(handles') > Len(handles)
            => /\ handles'[Len(handles')].stage = stage
               /\ handles'[Len(handles')].split = LoadedSplit(fs_processed[NamedIndex(stage)])]_vars

\* val.pt was built next to a train.pt that an earlier run left, and train.pt
\* is as it was
C22_Witness ==
    /\ pc = "load"
    /\ built
    /\ stage = "val"
    /\ fs_processed[1] # at_call.files[1]
    /\ Loadable(fs_processed[1])
    /\ fs_processed[0] = EarlierFile
    /\ ~fs_processed[2].exists

\* download_cora is between its chdir into the directory and its return
InDownload == pc \in {"dl_wget", "dl_read"}

\* C24: outside download_cora, also after a call whose download failed, the
\* directory cora exists only with cora_ml.npz inside it.
C24_DirHasFile ==
    ~InDownload => (fs_cora_dir => fs_npz)

\* C26: outside download_cora, also after a call that failed, the working
\* directory of the process is the one the call was entered from.
C26_CwdRestored ==
    ~InDownload => cwd = "start"

\* C25: the constructor consults the processed files only after one
\* download_cora call has returned, whether or not the file of the split
\* exists; a build samples and saves after a second call has returned; so a
\* handle that was loaded from the files it found has one acquisition behind
\* it and a handle that was built has two.
C25_AcquireBeforeCache ==
    /\ pc = "super_init" => at_call.acquired = 1
    /\ pc \in {"sample", "save"} => (built /\ at_call.acquired = 2)
    /\ pc = "load" => at_call.acquired = (IF built THEN 2 ELSE 1)
    /\ \A h \in 1..Len(handles) :
        handles[h].acquired = (IF handles[h].built THEN 2 ELSE 1)

\* a construction that found the file of its split, and all three files, is
\* about to load it, after its acquisition
C25_Witness ==
    /\ pc = "load"
    /\ ~built
    /\ existed = FileIndexes
    /\ Loadable(at_call.files[stage_to_index[stage]])
    /\ at_call.acquired = 1
    /\ fetches = 0

\* ------------------------------------------------------ merge: the claims
RECURSIVE SumLens(_)
SumLens(order) ==
    IF order = <<>> THEN 0 ELSE sources[Head(order)] + SumLens(Tail(order))

Merging == merge_pc \in {"ogb", "social", "done"}

\* C4: the merged handle's length is the sum of the lengths of the handles
\* added so far, after every +=; at the end it is the sum over all five
\* inputs, the length of the one-shot concatenation of the five.
C4_LengthSum ==
    /\ Merging => DsLen(combined) = SumLens(supplied)
    /\ merge_pc = "done" =>
        /\ DsLen(combined) = SumLens(InputOrder)
        /\ DsLen(combined)
             = DsLen(ConcatDataset([h \in 1..Len(InputOrder) |-> Leaf(InputOrder[h])]))

C4_Witness ==
    /\ merge_pc = "done"
    /\ \A nm \in AllNames : sources[nm] >= 1
    /\ sources[target_name] # sources["cora"]
    /\ DsLen(combined) >= Len(InputOrder) + 1

\* C5: for every index of the merged handle, get(i) is the sample of the
\* input whose cumulative range contains i, at offset i minus the lengths of
\* the inputs supplied before it; the inputs lie in the order supplied.
C5_Resolves ==
    /\ Merging =>
        \A idx \in 0..(DsLen(combined) - 1) :
            \E h \in 1..Len(supplied) :
                LET before == SumLens(SubSeq(supplied, 1, h - 1))
                IN  /\ before <= idx
                    /\ idx < before + sources[supplied[h]]
                    /\ DsGet(combined, idx) = <<supplied[h], idx - before>>
    /\ merge_pc = "done" => supplied = InputOrder

\* an empty input lies between non-empty ones, and the last index resolves
\* into the last input
C5_Witness ==
    /\ merge_pc = "done"
    /\ sources[target_name] = MaxLen
    /\ sources["facebook_large"] = 0
    /\ sources["cora"] = MaxLen
    /\ DsGet(combined, DsLen(combined) - 1) = <<"cora", MaxLen - 1>>
    /\ DsGet(combined, MaxLen - 1) = <<target_name, MaxLen - 1>>

\* -------------------------------------------- rebuilt graphs: the claims
Rebuilt == nx_out.fn # "none"
Elements(s) == {s[p] : p \in 1..Len(s)}

\* C10: the graph rebuilt from a sample with k node rows has the node set
\* 0..k-1 (each node once, the endpoints of no edge included) and exactly the
\* sample's edges, by better_to_nx and by vis_from_pyg.
C10_IsolatedKept ==
    Rebuilt =>
        /\ Elements(nx_out.nodes) = 0..(Len(data.x) - 1)
        /\ Len(nx_out.nodes) = Len(data.x)
        /\ nx_out.edges = {{data.edge_index[p][1], data.edge_index[p][2]}
                              : p \in 1..Len(data.edge_index)}

\* a sample with an edge and a node that no edge touches
C10_Witness ==
    /\ nx_out.fn = "better_to_nx"
    /\ Len(data.x) = MaxK
    /\ Len(data.edge_index) >= 1
    /\ \E v \in 0..(MaxK - 1) : v \notin unique(data.edge_index) /\ InSeq(nx_out.nodes, v)

====
